---- MODULE Spec2Model ----
(***************************************************************************)
(* A model of scripts/index.py, the command-line adapter of the Unibase    *)
(* AIP skill: one invocation of the script, from the start of run_cli to   *)
(* the end of the process.                                                 *)
(*                                                                         *)
(* Text is modelled as a sequence of tokens.  A token is a piece of text   *)
(* that is either white space, one of the separators "=" and "#", a digit, *)
(* a brace, or a word without white space and separators, so that strip,   *)
(* split, startswith, int() and json.loads act on a token sequence as they *)
(* act on the text it spells.  The empty text is <<>>.                     *)
(*                                                                         *)
(* The external client (AsyncAIPClient) is opaque: each awaited call       *)
(* either returns a value, which may or may not be JSON-serializable, or   *)
(* raises an exception (an instance of Exception) with some message.       *)
(* Constructing the client and leaving its context do not fail.            *)
(***************************************************************************)
EXTENDS Integers, Sequences, FiniteSets, TLC

VARIABLES
    argv,        \* sys.argv: <<script, tool, arg, ...>>
    environ,     \* os.environ: a function from names to values
    envFile,     \* the .env file beside the scripts directory: NoFile or its lines
    pc,          \* position of the process: start, dispatch, await, stream, done
    stdout,      \* the JSON values printed so far
    exit_code,   \* exit status the process ends with (0 unless sys.exit(1) ran)
    handlers,    \* names of the handler coroutines that were started
    configs,     \* number of get_config calls
    clients,     \* the AsyncAIPClient objects constructed: [base_url]
    calls,       \* client methods called, in order: [method, args]
    raised,      \* messages of the exceptions raised by client calls, in order
    frame,       \* the running handler's locals: NoFrame or [name, params, config]
    stream,      \* what client.run_stream will deliver: events, or RAISE items
    cursor,      \* number of items the async for loop has taken from the stream
    events       \* stream_agent's local list

vars == <<argv, environ, envFile, pc, stdout, exit_code, handlers, configs,
          clients, calls, raised, frame, stream, cursor, events>>

(***************************************************************************)
(* Bounds of the model.                                                    *)
(***************************************************************************)
MaxArgs == 2
MaxEvents == 3
MaxLines == 2

(***************************************************************************)
(* Text helpers.                                                           *)
(***************************************************************************)
IsSpace(c) == c \in {" ", "\t", "\n"}

RECURSIVE LStrip(_)
LStrip(s) == IF s # <<>> /\ IsSpace(Head(s)) THEN LStrip(Tail(s)) ELSE s

RECURSIVE RStrip(_)
RStrip(s) ==
    IF s # <<>> /\ IsSpace(s[Len(s)]) THEN RStrip(SubSeq(s, 1, Len(s) - 1)) ELSE s

\* str.strip()
Strip(s) == RStrip(LStrip(s))

\* `tok in text`, at the granularity of tokens
Contains(s, tok) == \E i \in 1..Len(s) : s[i] = tok

\* index of the first occurrence of tok in s (s contains tok)
FirstIndex(s, tok) ==
    CHOOSE i \in 1..Len(s) : s[i] = tok /\ \A j \in 1..(i - 1) : s[j] # tok

\* str.split(sep, 1) of a text that contains sep
Split1(s, sep) ==
    LET i == FirstIndex(s, sep)
    IN  <<SubSeq(s, 1, i - 1), SubSeq(s, i + 1, Len(s))>>

Digits == {"0", "7"}

DigitValue(c) == IF c = "7" THEN 7 ELSE 0

RECURSIVE DigitsValue(_)
DigitsValue(s) ==
    IF s = <<>> THEN 0
    ELSE 10 * DigitsValue(SubSeq(s, 1, Len(s) - 1)) + DigitValue(s[Len(s)])

AllDigits(s) == s # <<>> /\ \A i \in 1..Len(s) : s[i] \in Digits

\* int(text): white space stripped, an optional sign, then decimal digits
IntBody(s) == IF s # <<>> /\ Head(s) \in {"+", "-"} THEN Tail(s) ELSE s

IsIntLiteral(s) == AllDigits(IntBody(Strip(s)))

IntValue(s) ==
    LET t == Strip(s)
    IN  IF t # <<>> /\ Head(t) = "-" THEN 0 - DigitsValue(IntBody(t))
        ELSE DigitsValue(IntBody(t))

\* json.loads(text), for the texts of the token alphabet: a number (an
\* optional minus, then 0 or digits without a leading zero) or the empty object
JsonBody(s) == IF s # <<>> /\ Head(s) = "-" THEN Tail(s) ELSE s

IsJsonNumber(s) ==
    LET b == JsonBody(s)
    IN  AllDigits(b) /\ (Len(b) > 1 => Head(b) # "0")

IsJson(s) == LET t == Strip(s) IN IsJsonNumber(t) \/ t = <<"{", "}">>

JsonLoads(s) ==
    LET t == Strip(s)
    IN  IF t = <<"{", "}">> THEN [type |-> "object", value |-> 0]
        ELSE [type |-> "number",
              value |-> IF Head(t) = "-" THEN 0 - DigitsValue(JsonBody(t))
                        ELSE DigitsValue(t)]

(***************************************************************************)
(* JSON values handed to out().  A value carries whether json.dumps        *)
(* accepts it: a value built from arguments and messages always does, a    *)
(* value built from what the client returned does when that was            *)
(* serializable.                                                           *)
(***************************************************************************)
Data(tag, body, ser) == [tag |-> tag, body |-> body, serializable |-> ser]

\* {"error": message}
ErrorObject(message) == Data("error", message, TRUE)

\* a faulty variant of out: the text is written before serialization fails
out_writes_then_raises(so, data) ==
    [printed |-> Append(so, data), raises |-> ~data.serializable]

\* out(data): print(json.dumps(data)); json.dumps raises TypeError, before
\* anything is printed, on a value it cannot serialize
out(so, data) ==
    IF data.serializable
    THEN [printed |-> Append(so, data), raises |-> FALSE]
    ELSE [printed |-> so, raises |-> TRUE]

\* cli_err(message): out({"error": message}); sys.exit(1).  SystemExit is no
\* Exception, so no handler of the script catches it and the process ends.
cli_err(so, message) ==
    /\ stdout' = out(so, ErrorObject(message)).printed
    /\ exit_code' = 1
    /\ pc' = "done"

NotSerializable == <<"Object is not JSON serializable">>

\* the tail of run_cli's try block: out(result), and on an exception of
\* out the except clause; then the script ends with status 0
run_cli_out(result) ==
    LET o == out(stdout, result)
    IN  IF o.raises
        THEN cli_err(o.printed, NotSerializable)
        ELSE /\ stdout' = o.printed
             /\ exit_code' = 0
             /\ pc' = "done"

(***************************************************************************)
(* Configuration: get_config.                                              *)
(***************************************************************************)
\* the value of envFile when the file does not exist
NoFile == << <<"(no .env file)">> >>

USER_WALLET_ADDRESS == <<"USER_WALLET_ADDRESS">>
AIP_ENDPOINT == <<"AIP_ENDPOINT">>
MEMBASE_ACCOUNT == <<"MEMBASE_ACCOUNT">>
MEMBASE_SECRET_KEY == <<"MEMBASE_SECRET_KEY">>
DefaultEndpoint == <<"http://api.aip.unibase.com">>

\* a faulty variant of SetDefault: os.environ[key] = value
SetDefault_overwrites(env, key, value) ==
    [k \in DOMAIN env \cup {key} |-> IF k = key THEN value ELSE env[k]]

\* os.environ.setdefault(key, value)
SetDefault(env, key, value) ==
    IF key \in DOMAIN env THEN env
    ELSE [k \in DOMAIN env \cup {key} |-> IF k = key THEN value ELSE env[k]]

\* one iteration of the loop over the lines of the file
LoadLine(env, raw) ==
    LET line == Strip(raw)
    IN  IF line # <<>> /\ Head(line) # "#" /\ Contains(line, "=")
        THEN LET kv == Split1(line, "=")
             IN  SetDefault(env, Strip(kv[1]), Strip(kv[2]))
        ELSE env

RECURSIVE LoadEnvFile(_, _)
LoadEnvFile(env, lines) ==
    IF lines = <<>> THEN env
    ELSE LoadEnvFile(LoadLine(env, Head(lines)), Tail(lines))

\* os.environ.get(key): the value, or None
EnvGet(env, key) ==
    IF key \in DOMAIN env THEN [none |-> FALSE, text |-> env[key]]
    ELSE [none |-> TRUE, text |-> <<>>]

\* a faulty variant of Falsy: only None counts as missing
Falsy_none_only(opt) == opt.none

\* `not value` of a value that is None or a text
Falsy(opt) == opt.none \/ opt.text = <<>>

MissingEnv == <<"Missing env: set USER_WALLET_ADDRESS">>

\* get_config(): the environment after the file was applied, whether the
\* required variable is there, and the mapping returned when it is
get_config(env, file) ==
    LET loaded == IF file = NoFile THEN env ELSE LoadEnvFile(env, file)
        user_wallet == EnvGet(loaded, USER_WALLET_ADDRESS)
    IN  [environ |-> loaded,
         ok |-> ~Falsy(user_wallet),
         config |-> [aip_endpoint |-> IF AIP_ENDPOINT \in DOMAIN loaded
                                      THEN loaded[AIP_ENDPOINT]
                                      ELSE DefaultEndpoint,
                     user_wallet |-> user_wallet.text,
                     membase_account |-> EnvGet(loaded, MEMBASE_ACCOUNT),
                     membase_secret_key |-> EnvGet(loaded, MEMBASE_SECRET_KEY)]]

\* a faulty variant of UserId: the bare wallet address
UserId_bare(config) == config.user_wallet

\* f"user:{config['user_wallet']}"
UserId(config) == <<"user:">> \o config.user_wallet

(***************************************************************************)
(* The dispatch table.                                                     *)
(***************************************************************************)
ToolNames ==
    <<"call_agent", "stream_agent", "auto_route", "health_check", "list_agents",
      "get_agent_info", "list_runs", "get_run_details", "get_agent_price",
      "list_agent_prices", "register_agent", "unregister_agent", "register_user",
      "list_users">>

Tool(min_args, usage, handler) ==
    [min_args |-> min_args, usage |-> usage, handler |-> handler]

TOOLS ==
    ("call_agent" :> Tool(2, "call_agent \"<agent_handle>\" \"<objective>\"", "call_agent"))
 @@ ("stream_agent" :> Tool(2, "stream_agent \"<agent_handle>\" \"<objective>\"", "stream_agent"))
 @@ ("auto_route" :> Tool(1, "auto_route \"<objective>\"", "auto_route"))
 @@ ("health_check" :> Tool(0, "health_check", "health_check"))
 @@ ("list_agents" :> Tool(0, "list_agents [limit] [offset]", "list_agents"))
 @@ ("get_agent_info" :> Tool(1, "get_agent_info \"<agent_id>\"", "get_agent_info"))
 @@ ("list_runs" :> Tool(0, "list_runs [limit] [offset]", "list_runs"))
 @@ ("get_run_details" :> Tool(1, "get_run_details \"<run_id>\"", "get_run_details"))
 @@ ("get_agent_price" :> Tool(1, "get_agent_price \"<agent_id>\"", "get_agent_price"))
 @@ ("list_agent_prices" :> Tool(0, "list_agent_prices [limit] [offset]", "list_agent_prices"))
 @@ ("register_agent" :> Tool(1, "register_agent \"<agent_config_json>\"", "register_agent"))
 @@ ("unregister_agent" :> Tool(1, "unregister_agent \"<agent_id>\"", "unregister_agent"))
 @@ ("register_user" :> Tool(0, "register_user [email]", "register_user"))
 @@ ("list_users" :> Tool(0, "list_users [limit] [offset]", "list_users"))

\* " | ".join(t["usage"] for t in TOOLS.values()), the usages in table order
AllUsage == [i \in 1..Len(ToolNames) |-> TOOLS[ToolNames[i]].usage]

UsageAll == <<"Usage: ">> \o AllUsage
UnknownTool(tool) == <<"Unknown tool: ", tool, ". Usage: ">> \o AllUsage
UsageOf(tool) == <<"Usage: ", TOOLS[tool].usage>>

\* sys.argv[2:]
Args == SubSeq(argv, 3, Len(argv))

\* a faulty variant of TooFew: the comparison is off by one
TooFew_off_by_one(tool, args) == Len(args) + 1 < TOOLS[tool].min_args

\* len(args) < tool_info["min_args"]
TooFew(tool, args) == Len(args) < TOOLS[tool].min_args

(***************************************************************************)
(* run_cli up to the call of the handler.                                  *)
(***************************************************************************)
run_cli ==
    /\ pc = "start"
    /\ IF Len(argv) < 2
       THEN cli_err(stdout, UsageAll)
       ELSE IF argv[2] \notin DOMAIN TOOLS
       THEN cli_err(stdout, UnknownTool(argv[2]))
       ELSE IF TooFew(argv[2], Args)
       THEN cli_err(stdout, UsageOf(argv[2]))
       ELSE /\ pc' = "dispatch"
            /\ UNCHANGED <<stdout, exit_code>>
    /\ UNCHANGED <<argv, environ, envFile, handlers, configs, clients, calls,
                   raised, frame, stream, cursor, events>>

(***************************************************************************)
(* The external client.                                                    *)
(***************************************************************************)
\* what an awaited client method can return: an object, serializable or not;
\* get_agent can also return None
Returned(ser) == [none |-> FALSE, serializable |-> ser]
None == [none |-> TRUE, serializable |-> TRUE]

ReturnValues(method) ==
    {Returned(TRUE), Returned(FALSE)} \cup (IF method = "get_agent" THEN {None} ELSE {})

\* str(e) of the exceptions a client call can raise
ClientErrors == {<<"HTTP ", "502", " Bad Gateway">>, <<"HTTP ", "404", " Not Found">>,
                 <<"HTTP ", "500", " Internal Server Error">>}

\* what the async iterator of run_stream yields on one __anext__: an event, or
\* an exception
Event(event_type, ser) ==
    [raises |-> FALSE, event_type |-> event_type, payload |-> Returned(ser)]
StreamRaise ==
    [raises |-> TRUE, event_type |-> "", payload |-> None]
StreamError == <<"HTTP ", "500", " Internal Server Error">>

StreamItems ==
    {Event("agent_message", TRUE), Event("agent_message", FALSE),
     Event("run_completed", TRUE), Event("run_error", TRUE), StreamRaise}

Streams == UNION {[1..n -> StreamItems] : n \in 0..MaxEvents}

(***************************************************************************)
(* The handlers.  Each handler action covers the lambda of the dispatch    *)
(* table (with its int() conversions) and the handler coroutine up to its  *)
(* first await of the client.                                              *)
(***************************************************************************)
\* a faulty variant of HandlerOf: list_runs runs the handler of list_agents
HandlerOf_wrong(tool) ==
    IF tool = "list_runs" THEN "list_agents" ELSE TOOLS[tool].handler

\* tool_info = TOOLS[tool]; tool_info["handler"]
HandlerOf(tool) == TOOLS[tool].handler

IndexError == <<"list index out of range">>
IntError(s) == <<"invalid literal for int() with base 10: ">> \o s
InvalidJson == <<"Invalid JSON: ", "JSONDecodeError">>
AgentNotFound(agent_id) == <<"Agent not found: ">> \o agent_id

\* args[i - 1] of a lambda, where it exists
Arg(i) == IF i <= Len(Args) THEN Args[i] ELSE <<>>

\* the exception of a lambda that indexes n arguments, <<>> when there is none
Indexing(n) == IF Len(Args) < n THEN IndexError ELSE <<>>

\* the exception of int(args[0]) if len(args) > 0 ..., int(args[1]) if
\* len(args) > 1 ..., evaluated in this order; <<>> when there is none
IntArgs ==
    IF Len(Args) > 0 /\ ~IsIntLiteral(Args[1]) THEN IntError(Args[1])
    ELSE IF Len(Args) > 1 /\ ~IsIntLiteral(Args[2]) THEN IntError(Args[2])
    ELSE <<>>

DefaultLimit == 100
DefaultOffset == 0

\* <<limit, offset>> as the lambdas of the list tools compute them
LimitOffset ==
    <<IF Len(Args) > 0 THEN IntValue(Args[1]) ELSE DefaultLimit,
      IF Len(Args) > 1 THEN IntValue(Args[2]) ELSE DefaultOffset>>

NoFrame == [name |-> "none"]

\* The shape shared by the handlers: the lambda's arguments, get_config,
\* a check of the handler before the client (body_error), the client's
\* construction and the first call.
Forward(name, lambda_error, params, body_error, method, call_args, next_pc, streams) ==
    /\ pc = "dispatch"
    /\ HandlerOf(argv[2]) = name
    /\ handlers' = Append(handlers, name)
    /\ IF lambda_error # <<>>
       THEN /\ cli_err(stdout, lambda_error)
            /\ UNCHANGED <<environ, configs, clients, calls, frame, stream>>
       ELSE LET g == get_config(environ, envFile)
            IN  /\ environ' = g.environ
                /\ configs' = configs + 1
                /\ IF ~g.ok
                   THEN /\ cli_err(stdout, MissingEnv)
                        /\ UNCHANGED <<clients, calls, frame, stream>>
                   ELSE IF body_error # <<>>
                   THEN /\ cli_err(stdout, body_error)
                        /\ UNCHANGED <<clients, calls, frame, stream>>
                   ELSE /\ clients' = Append(clients, [base_url |-> g.config.aip_endpoint])
                        /\ calls' = Append(calls, [method |-> method,
                                                   args |-> call_args])
                        /\ frame' = [name |-> name, params |-> params,
                                     config |-> g.config, got |-> <<>>]
                        /\ stream' \in streams
                        /\ pc' = next_pc
                        /\ UNCHANGED <<stdout, exit_code>>
    /\ UNCHANGED <<argv, envFile, raised, cursor, events>>

\* the mapping get_config returns to the handler (when it returns)
Config == get_config(environ, envFile).config

NoBodyError == <<>>

call_agent ==
    Forward("call_agent", Indexing(2), <<Arg(1), Arg(2)>>, NoBodyError, "run",
            [objective |-> Arg(2), agent |-> Arg(1), user_id |-> UserId(Config),
             timeout |-> 60],
            "await", {stream})

stream_agent ==
    Forward("stream_agent", Indexing(2), <<Arg(1), Arg(2)>>, NoBodyError, "run_stream",
            [objective |-> Arg(2), agent |-> Arg(1), user_id |-> UserId(Config)],
            "stream", Streams)

auto_route ==
    Forward("auto_route", Indexing(1), <<Arg(1)>>, NoBodyError, "run",
            [objective |-> Arg(1), user_id |-> UserId(Config), timeout |-> 60],
            "await", {stream})

health_check ==
    Forward("health_check", <<>>, <<>>, NoBodyError, "health_check",
            <<>>,
            "await", {stream})

list_agents ==
    Forward("list_agents", IntArgs, LimitOffset, NoBodyError, "list_user_agents",
            [user_id |-> UserId(Config), limit |-> LimitOffset[1],
                        offset |-> LimitOffset[2]],
            "await", {stream})

get_agent_info ==
    Forward("get_agent_info", Indexing(1), <<Arg(1)>>, NoBodyError, "get_agent",
            [user_id |-> UserId(Config), agent_id |-> Arg(1)],
            "await", {stream})

list_runs ==
    Forward("list_runs", IntArgs, LimitOffset, NoBodyError, "list_user_runs",
            [user_id |-> UserId(Config), limit |-> LimitOffset[1],
                        offset |-> LimitOffset[2]],
            "await", {stream})

get_run_details ==
    Forward("get_run_details", Indexing(1), <<Arg(1)>>, NoBodyError, "get_run_events",
            [run_id |-> Arg(1)],
            "await", {stream})

get_agent_price ==
    Forward("get_agent_price", Indexing(1), <<Arg(1)>>, NoBodyError, "get_agent_price",
            [user_id |-> UserId(Config), agent_id |-> Arg(1)],
            "await", {stream})

list_agent_prices ==
    Forward("list_agent_prices", IntArgs, LimitOffset, NoBodyError, "list_agent_prices",
            [limit |-> LimitOffset[1], offset |-> LimitOffset[2]],
            "await", {stream})

\* json.loads(agent_config_json), after get_config
JsonError == IF IsJson(Arg(1)) THEN <<>> ELSE InvalidJson

register_agent ==
    Forward("register_agent", Indexing(1), <<Arg(1)>>, JsonError, "register_agent",
            [user_id |-> UserId(Config), agent_config |-> JsonLoads(Arg(1))],
            "await", {stream})

unregister_agent ==
    Forward("unregister_agent", Indexing(1), <<Arg(1)>>, NoBodyError, "unregister_agent",
            [user_id |-> UserId(Config), agent_id |-> Arg(1)],
            "await", {stream})

\* args[0] if len(args) > 0 else None
Email == IF Len(Args) > 0 THEN [none |-> FALSE, text |-> Args[1]]
         ELSE [none |-> TRUE, text |-> <<>>]

register_user ==
    Forward("register_user", <<>>, <<Email>>, NoBodyError, "register_user",
            [wallet_address |-> Config.user_wallet, email |-> Email],
            "await", {stream})

list_users ==
    Forward("list_users", IntArgs, LimitOffset, NoBodyError, "list_users",
            [limit |-> LimitOffset[1], offset |-> LimitOffset[2]],
            "await", {stream})

(***************************************************************************)
(* The handlers after an awaited call.                                     *)
(***************************************************************************)
\* a faulty variant of NextMethod: call_agent runs the agent a second time
NextMethod_again(name, n) ==
    IF name = "get_run_details" /\ n = 1 THEN "get_run_payments"
    ELSE IF name = "call_agent" /\ n = 1 THEN "run"
    ELSE ""

\* the client method a handler awaits after its n-th call returned, "" when
\* it awaits no more: only get_run_details has a second call
NextMethod(name, n) ==
    IF name = "get_run_details" /\ n = 1 THEN "get_run_payments" ELSE ""

FallbackNote ==
    <<"Agent discovery endpoint not available. Use call_agent with known handles like 'weather_public' or 'calculator_private'.">>

\* the mapping a handler returns once its calls returned `got`
HandlerResult(name, params, config, got) ==
    LET v == got[Len(got)]
    IN  CASE name = "call_agent" ->
               Data("object", [success |-> v, status |-> v, output |-> v,
                               agent |-> params[1], objective |-> params[2]],
                    v.serializable)
          [] name = "auto_route" ->
               Data("object", [success |-> v, status |-> v, output |-> v,
                               objective |-> params[1], routed |-> TRUE],
                    v.serializable)
          [] name = "health_check" ->
               Data("object", [healthy |-> v, endpoint |-> config.aip_endpoint],
                    v.serializable)
          [] name = "list_agents" ->
               Data("object", [agents |-> v, total |-> v, limit |-> v, offset |-> v],
                    v.serializable)
          [] name = "get_agent_info" ->
               Data("object", [agent |-> v], v.serializable)
          [] name = "list_runs" ->
               Data("object", [runs |-> v, total |-> v, limit |-> v, offset |-> v],
                    v.serializable)
          [] name = "get_run_details" ->
               Data("object", [run_id |-> params[1], events |-> got[1],
                               payments |-> got[2]],
                    got[1].serializable /\ got[2].serializable)
          [] name = "get_agent_price" ->
               Data("object", [agent_id |-> v, amount |-> v, currency |-> v,
                               metadata |-> v],
                    v.serializable)
          [] name = "list_agent_prices" ->
               Data("object", [prices |-> v, total |-> v, limit |-> v, offset |-> v],
                    v.serializable)
          [] name = "list_users" ->
               Data("object", [users |-> v, total |-> v, limit |-> v, offset |-> v],
                    v.serializable)
          [] OTHER ->  \* register_agent, unregister_agent, register_user
               Data("value", v, v.serializable)

\* an awaited client call returns
client_returns ==
    /\ pc = "await"
    /\ \E v \in ReturnValues(calls[Len(calls)].method) :
          LET got == Append(frame.got, v)
              next == NextMethod(frame.name, Len(got))
          IN  IF next # ""
              THEN /\ calls' = Append(calls, [method |-> next,
                                              args |-> calls[Len(calls)].args])
                   /\ frame' = [frame EXCEPT !.got = got]
                   /\ UNCHANGED <<pc, stdout, exit_code>>
              ELSE /\ IF frame.name = "get_agent_info" /\ v.none
                      THEN cli_err(stdout, AgentNotFound(frame.params[1]))
                      ELSE run_cli_out(HandlerResult(frame.name, frame.params,
                                                     frame.config, got))
                   /\ frame' = [frame EXCEPT !.got = got]
                   /\ UNCHANGED calls
    /\ UNCHANGED <<argv, environ, envFile, handlers, configs, clients, raised,
                   stream, cursor, events>>

\* a faulty variant of Recovery: list_agents falls back on every exception
Recovery_any_message(name, message) ==
    IF name = "list_agents" THEN "fallback" ELSE "raise"

\* what a handler does with an exception of its client call: only list_agents
\* has an except clause, which returns the fallback when the message contains
\* "502" or "404" and raises again otherwise
Recovery(name, message) ==
    IF name = "list_agents" /\ (Contains(message, "502") \/ Contains(message, "404"))
    THEN "fallback"
    ELSE "raise"

\* a faulty variant of Fallback: the fallback reports the default limit and offset
Fallback_defaults(params) ==
    Data("object", [agents |-> <<>>, total |-> 0, limit |-> DefaultLimit,
                    offset |-> DefaultOffset, note |-> FallbackNote], TRUE)

\* the mapping list_agents returns when the endpoint is not available
Fallback(params) ==
    Data("object", [agents |-> <<>>, total |-> 0, limit |-> params[1],
                    offset |-> params[2], note |-> FallbackNote], TRUE)

\* an awaited client call raises
client_raises ==
    /\ pc = "await"
    /\ \E message \in ClientErrors :
          /\ raised' = Append(raised, message)
          /\ IF Recovery(frame.name, message) = "fallback"
             THEN run_cli_out(Fallback(frame.params))
             ELSE cli_err(stdout, message)
    /\ UNCHANGED <<argv, environ, envFile, handlers, configs, clients, calls,
                   frame, stream, cursor, events>>

\* a faulty variant of IsSentinel: run_error does not end the loop
IsSentinel_completed_only(event_type) == event_type = "run_completed"

\* event.event_type in ("run_completed", "run_error")
IsSentinel(event_type) == event_type \in {"run_completed", "run_error"}

\* what stream_agent returns
EventList(evs) ==
    Data("array", evs, \A i \in 1..Len(evs) : evs[i].payload.serializable)

\* one step of stream_agent's async for loop: the iterator is exhausted, or
\* raises, or yields an event, which is appended and may end the loop
stream_next ==
    /\ pc = "stream"
    /\ IF cursor = Len(stream)
       THEN /\ run_cli_out(EventList(events))
            /\ UNCHANGED <<cursor, events, raised>>
       ELSE LET item == stream[cursor + 1]
            IN  /\ cursor' = cursor + 1
                /\ IF item.raises
                   THEN /\ raised' = Append(raised, StreamError)
                        /\ cli_err(stdout, StreamError)
                        /\ UNCHANGED events
                   ELSE LET evs == Append(events, [event_type |-> item.event_type,
                                                   payload |-> item.payload])
                        IN  /\ events' = evs
                            /\ UNCHANGED raised
                            /\ IF IsSentinel(item.event_type)
                               THEN run_cli_out(EventList(evs))
                               ELSE UNCHANGED <<pc, stdout, exit_code>>
    /\ UNCHANGED <<argv, environ, envFile, handlers, configs, clients, calls,
                   frame, stream>>

(***************************************************************************)
(* One invocation of the script.                                           *)
(***************************************************************************)
ArgStrings == {<<"7">>, <<"0", "7">>, <<"{", "}">>, <<"x">>}

ArgLists == UNION {[1..n -> ArgStrings] : n \in 0..MaxArgs}

ToolSet == {ToolNames[i] : i \in 1..Len(ToolNames)}

Argvs ==
    {<<"index.py">>} \cup
    {<<"index.py", t>> \o a : t \in ToolSet \cup {"no_such_tool"}, a \in ArgLists}

EmptyEnv == [k \in {} |-> <<>>]

Environs ==
    {EmptyEnv, USER_WALLET_ADDRESS :> <<>>, USER_WALLET_ADDRESS :> <<"0xA">>}

EnvFiles ==
    {NoFile,
     << <<"USER_WALLET_ADDRESS", "=", "0xF", "\n">>,
        <<"AIP_ENDPOINT", "=", "http://f", "\n">> >>,
     << <<"USER_WALLET_ADDRESS", "=", "\n">> >>}

Init ==
    /\ argv \in Argvs
    /\ environ \in Environs
    /\ envFile \in EnvFiles
    /\ pc = "start"
    /\ stdout = <<>>
    /\ exit_code = 0
    /\ handlers = <<>>
    /\ configs = 0
    /\ clients = <<>>
    /\ calls = <<>>
    /\ raised = <<>>
    /\ frame = NoFrame
    /\ stream = <<>>
    /\ cursor = 0
    /\ events = <<>>

Next ==
    \/ run_cli
    \/ call_agent
    \/ stream_agent
    \/ auto_route
    \/ health_check
    \/ list_agents
    \/ get_agent_info
    \/ list_runs
    \/ get_run_details
    \/ get_agent_price
    \/ list_agent_prices
    \/ register_agent
    \/ unregister_agent
    \/ register_user
    \/ list_users
    \/ client_returns
    \/ client_raises
    \/ stream_next

Spec == Init /\ [][Next]_vars

\* the event loop runs the one task until it ends, and the stream's iterator
\* answers every __anext__
LiveSpec == Spec /\ WF_vars(stream_next)

(***************************************************************************)
(* get_config on its own, over more files and environments.                *)
(***************************************************************************)
EnvLines ==
    {<<"\n">>,
     <<" ", "\n">>,
     <<"#", "USER_WALLET_ADDRESS", "=", "0xC", "\n">>,
     <<" ", "#", " ", "note", "\n">>,
     <<"USER_WALLET_ADDRESS", "\n">>,
     <<"USER_WALLET_ADDRESS", "=", "0xF", "\n">>,
     <<" ", "USER_WALLET_ADDRESS", " ", "=", " ", "0xG", " ", "\n">>,
     <<"USER_WALLET_ADDRESS", "=", "\n">>,
     <<"AIP_ENDPOINT", "=", "http://f", "\n">>,
     <<"AIP_ENDPOINT", "=", "a", "=", "b", "\n">>,
     <<"MEMBASE_ACCOUNT", "=", "acct", "\n">>}

EnvFilesWide == {NoFile} \cup UNION {[1..n -> EnvLines] : n \in 0..MaxLines}

EnvironsWide ==
    {w @@ e : w \in {EmptyEnv, USER_WALLET_ADDRESS :> <<>>,
                     USER_WALLET_ADDRESS :> <<"0xA">>},
              e \in {EmptyEnv, AIP_ENDPOINT :> <<>>, AIP_ENDPOINT :> <<"http://e">>}}

InitEnv ==
    /\ argv = <<"index.py", "health_check">>
    /\ environ \in EnvironsWide
    /\ envFile \in EnvFilesWide
    /\ pc = "dispatch"
    /\ stdout = <<>>
    /\ exit_code = 0
    /\ handlers = <<>>
    /\ configs = 0
    /\ clients = <<>>
    /\ calls = <<>>
    /\ raised = <<>>
    /\ frame = NoFrame
    /\ stream = <<>>
    /\ cursor = 0
    /\ events = <<>>

\* config = get_config(), the first statement of every handler
load_config ==
    /\ pc = "dispatch"
    /\ LET g == get_config(environ, envFile)
       IN  /\ environ' = g.environ
           /\ configs' = configs + 1
           /\ IF ~g.ok
              THEN /\ cli_err(stdout, MissingEnv)
                   /\ UNCHANGED frame
              ELSE /\ frame' = [name |-> "get_config", config |-> g.config]
                   /\ pc' = "configured"
                   /\ UNCHANGED <<stdout, exit_code>>
    /\ UNCHANGED <<argv, envFile, handlers, clients, calls, raised, stream,
                   cursor, events>>

NextEnv == load_config

SpecEnv == InitEnv /\ [][NextEnv]_vars

(***************************************************************************)
(* Vocabulary of the properties, in terms of the invocation's inputs.      *)
(***************************************************************************)
Done == pc = "done"
HasTool == Len(argv) >= 2
KnownTool == HasTool /\ argv[2] \in ToolSet
EnoughArgs == KnownTool /\ Len(Args) >= TOOLS[argv[2]].min_args
ListTools == {"list_agents", "list_runs", "list_agent_prices", "list_users"}

\* positions of the limit and offset arguments given that int() rejects
BadIntArgs == {i \in {1, 2} : i <= Len(Args) /\ ~IsIntLiteral(Args[i])}
NonIntArg == EnoughArgs /\ argv[2] \in ListTools /\ BadIntArgs # {}
FirstBadInt == Args[CHOOSE i \in BadIntArgs : \A j \in BadIntArgs : i <= j]

\* the environment once the file has been applied (applying it twice changes
\* nothing more), and whether USER_WALLET_ADDRESS is absent from it
EnvAfterFile == IF envFile = NoFile THEN environ ELSE LoadEnvFile(environ, envFile)
WalletAbsent ==
    \/ USER_WALLET_ADDRESS \notin DOMAIN EnvAfterFile
    \/ EnvAfterFile[USER_WALLET_ADDRESS] = <<>>

BadJson == EnoughArgs /\ argv[2] = "register_agent" /\ ~IsJson(Args[1])

PrintedSomeError == Len(stdout) = 1 /\ stdout[1].tag = "error" /\ exit_code = 1
PrintedError(message) == PrintedSomeError /\ stdout[1].body = message
PrintedResult(tag, body) ==
    Len(stdout) = 1 /\ stdout[1].tag = tag /\ stdout[1].body = body /\ exit_code = 0
NoNetwork == clients = <<>> /\ calls = <<>>
Unavailable(message) == Contains(message, "502") \/ Contains(message, "404")

RequestedLimit == IF Len(Args) > 0 THEN IntValue(Args[1]) ELSE 100
RequestedOffset == IF Len(Args) > 1 THEN IntValue(Args[2]) ELSE 0

(***************************************************************************)
(* C1: every invocation that ends has written exactly one JSON value to    *)
(* standard output, and nothing is written before the invocation ends.     *)
(***************************************************************************)
C1_ExactlyOneJsonValue == IF Done THEN Len(stdout) = 1 ELSE Len(stdout) = 0

\* a result that json.dumps rejects was replaced by the one error object
C1_Witness ==
    Done /\ calls # <<>> /\ raised = <<>> /\ PrintedError(NotSerializable)

(***************************************************************************)
(* C2, as stated: for each of the 14 subcommands, when configuration       *)
(* loading fails, argument validation fails or a client call raises, the   *)
(* invocation prints an error object and exits with status 1.              *)
(***************************************************************************)
ArgumentFailure == KnownTool /\ (~EnoughArgs \/ NonIntArg \/ BadJson)
ConfigFailure == EnoughArgs /\ WalletAbsent

C2_AllErrorsSurface ==
    (Done /\ KnownTool /\ (ArgumentFailure \/ ConfigFailure \/ raised # <<>>))
        => PrintedSomeError

(***************************************************************************)
(* C2, amended: the same, except that list_agents, when its client call    *)
(* raises an exception whose message contains "502" or "404", prints the   *)
(* fallback result and exits with status 0; every other exception of a     *)
(* client call is printed as the error object of its message, status 1.    *)
(***************************************************************************)
C2_ErrorsSurfaceButFallback ==
    (Done /\ KnownTool) =>
        /\ (ArgumentFailure \/ ConfigFailure) => PrintedSomeError
        /\ raised # <<>> =>
              IF handlers = <<"list_agents">> /\ Unavailable(raised[1])
              THEN /\ exit_code = 0
                   /\ Len(stdout) = 1
                   /\ stdout[1].tag = "object"
                   /\ stdout[1].body.note = FallbackNote
              ELSE PrintedError(raised[1])

C2_Witness ==
    /\ Done
    /\ handlers = <<"list_agents">>
    /\ raised = <<(<<"HTTP ", "404", " Not Found">>)>>
    /\ exit_code = 0
    /\ stdout[1].tag = "object"

(***************************************************************************)
(* C3: with fewer arguments than the subcommand's min_args, the invocation *)
(* prints the error object of that subcommand's usage and exits 1; no      *)
(* handler is invoked, no configuration loaded, no client constructed or   *)
(* called.                                                                 *)
(***************************************************************************)
C3_TooFewArguments ==
    (KnownTool /\ Len(Args) < TOOLS[argv[2]].min_args) =>
        /\ handlers = <<>>
        /\ configs = 0
        /\ NoNetwork
        /\ pc \in {"start", "done"}
        /\ Done => PrintedError(<<"Usage: ", TOOLS[argv[2]].usage>>)

C3_Witness ==
    /\ Done
    /\ KnownTool
    /\ argv[2] = "call_agent"
    /\ Len(Args) = 1
    /\ PrintedError(<<"Usage: ", "call_agent \"<agent_handle>\" \"<objective>\"">>)

(***************************************************************************)
(* C4: when USER_WALLET_ADDRESS is absent (unset or empty once the .env    *)
(* file has been applied) and the arguments suffice, the invocation prints *)
(* an error object and exits 1, and no client is ever constructed or       *)
(* called.                                                                 *)
(***************************************************************************)
C4_MissingWalletBeforeNetwork ==
    (EnoughArgs /\ WalletAbsent) =>
        /\ NoNetwork
        /\ pc \in {"start", "dispatch", "done"}
        /\ Done => PrintedSomeError

\* the variable is set, to the empty string, and the file does not fill it
C4_Witness ==
    /\ Done
    /\ EnoughArgs
    /\ USER_WALLET_ADDRESS \in DOMAIN environ
    /\ environ[USER_WALLET_ADDRESS] = <<>>
    /\ envFile # NoFile
    /\ configs = 1
    /\ PrintedError(MissingEnv)

(***************************************************************************)
(* C5: when the client call of list_agents raises with a message that      *)
(* contains "502" or "404", the invocation prints {agents: [], total: 0,   *)
(* limit: requested limit, offset: requested offset, note} and exits 0;    *)
(* with any other message, and in every other subcommand, the exception's  *)
(* message is printed as an error object and the status is 1.              *)
(***************************************************************************)
C5_FallbackOnlyForListAgents ==
    (Done /\ raised # <<>>) =>
        IF handlers = <<"list_agents">> /\ Unavailable(raised[1])
        THEN PrintedResult("object",
                           [agents |-> <<>>, total |-> 0, limit |-> RequestedLimit,
                            offset |-> RequestedOffset, note |-> FallbackNote])
        ELSE PrintedError(raised[1])

C5_Witness ==
    /\ Done
    /\ handlers = <<"list_agents">>
    /\ Args = <<(<<"7">>), (<<"0", "7">>)>>
    /\ raised = <<(<<"HTTP ", "502", " Bad Gateway">>)>>
    /\ stdout[1].tag = "object"
    /\ stdout[1].body.limit = 7
    /\ stdout[1].body.offset = 7

(***************************************************************************)
(* C6, as stated: in every invocation at most one method of the client is  *)
(* called.                                                                 *)
(***************************************************************************)
C6_SingleClientCall == Len(calls) <= 1

(***************************************************************************)
(* C6, amended: at most one method of the client is called, except by      *)
(* get_run_details, which calls get_run_events and then, once that         *)
(* returned, get_run_payments; one client is constructed at most, and      *)
(* after a call raised no further call is made (nothing is retried).       *)
(***************************************************************************)
C6_OneCallButRunDetails ==
    /\ Len(clients) <= 1
    /\ Len(calls) <= (IF handlers = <<"get_run_details">> THEN 2 ELSE 1)
    /\ Len(calls) = 2 =>
          /\ calls[1].method = "get_run_events"
          /\ calls[2].method = "get_run_payments"
    /\ Len(raised) <= 1
    /\ raised # <<>> => Done

C6_Witness ==
    /\ Done
    /\ handlers = <<"get_run_details">>
    /\ Len(calls) = 2
    /\ raised # <<>>

(***************************************************************************)
(* C7, as stated: the loop of stream_agent takes no item of the stream     *)
(* after the first run_completed or run_error event, and when the stream   *)
(* delivers its events without raising, the printed list is the delivered  *)
(* sequence up to and including that event (all of it when there is none). *)
(***************************************************************************)
IsStop(item) == ~item.raises /\ item.event_type \in {"run_completed", "run_error"}

\* index of the first sentinel of the stream, its length when it has none
StopAt(s) ==
    IF \E i \in 1..Len(s) : IsStop(s[i])
    THEN CHOOSE i \in 1..Len(s) : IsStop(s[i]) /\ \A j \in 1..(i - 1) : ~IsStop(s[j])
    ELSE Len(s)

DeliveredPrefix(s) ==
    [i \in 1..StopAt(s) |-> [event_type |-> s[i].event_type, payload |-> s[i].payload]]

\* the stream raises nothing up to its first sentinel or its end
Delivers(s) == \A i \in 1..StopAt(s) : ~s[i].raises

Streaming == handlers = <<"stream_agent">> /\ calls # <<>>

C7_PrintsDeliveredPrefix ==
    Streaming =>
        /\ cursor <= StopAt(stream)
        /\ (Done /\ Delivers(stream)) =>
              /\ Len(stdout) = 1
              /\ stdout[1].tag = "array"
              /\ stdout[1].body = DeliveredPrefix(stream)

(***************************************************************************)
(* C7, amended: the loop takes no item after the first sentinel; when the  *)
(* stream raises nothing, the list stream_agent returns is the delivered   *)
(* sequence up to and including the first sentinel, and it is what is      *)
(* printed when every payload in it is JSON-serializable (otherwise the    *)
(* error object of the serialization error is printed, status 1); and the  *)
(* loop ends whenever the stream keeps answering.                          *)
(***************************************************************************)
C7_Safety ==
    Streaming =>
        /\ cursor <= StopAt(stream)
        /\ (Done /\ Delivers(stream)) =>
              /\ events = DeliveredPrefix(stream)
              /\ IF \A i \in 1..StopAt(stream) : stream[i].payload.serializable
                 THEN PrintedResult("array", DeliveredPrefix(stream))
                 ELSE PrintedError(NotSerializable)

C7_StreamLoopBounded == [](C7_Safety) /\ ((pc = "stream") ~> Done)

\* a stream that goes on after its first sentinel, which was its second event
C7_Witness ==
    /\ Done
    /\ Streaming
    /\ Delivers(stream)
    /\ StopAt(stream) = 2
    /\ Len(stream) = 3
    /\ PrintedResult("array", DeliveredPrefix(stream))

(***************************************************************************)
(* C8: get_config changes no variable that is already in the environment;  *)
(* a variable that is not takes the value of the first KEY=VALUE line of   *)
(* the file for it; nothing else enters the environment (blank lines,      *)
(* comments and lines without "=" change nothing); and the endpoint is the *)
(* default exactly when neither the environment nor the file supplies it.  *)
(***************************************************************************)
IsKeyValue(raw) ==
    LET line == Strip(raw)
    IN  line # <<>> /\ Head(line) # "#" /\ Contains(line, "=")
KeyOf(raw) == Strip(Split1(Strip(raw), "=")[1])
ValueOf(raw) == Strip(Split1(Strip(raw), "=")[2])

\* the lines of the file that give `key` a value, in file order
LinesFor(key) ==
    IF envFile = NoFile THEN {}
    ELSE {i \in 1..Len(envFile) : IsKeyValue(envFile[i]) /\ KeyOf(envFile[i]) = key}
FirstLineFor(key) == envFile[CHOOSE i \in LinesFor(key) : \A j \in LinesFor(key) : i <= j]

FileKeys ==
    IF envFile = NoFile THEN {}
    ELSE {KeyOf(envFile[i]) : i \in {j \in 1..Len(envFile) : IsKeyValue(envFile[j])}}

C8_Step ==
    (configs' = configs + 1) =>
        /\ \A k \in DOMAIN environ : k \in DOMAIN environ' /\ environ'[k] = environ[k]
        /\ DOMAIN environ' = DOMAIN environ \cup FileKeys
        /\ \A k \in DOMAIN environ' \ DOMAIN environ :
              environ'[k] = ValueOf(FirstLineFor(k))
        /\ pc' = "configured" =>
              (frame'.config.aip_endpoint = DefaultEndpoint
                  <=> (AIP_ENDPOINT \notin DOMAIN environ /\ LinesFor(AIP_ENDPOINT) = {}))

C8_EnvFileFillsUnsetOnly == [][C8_Step]_vars

\* two lines of the file give the wallet different values and the first one
\* won, while the endpoint kept the value it had in the environment
C8_Witness ==
    /\ pc = "configured"
    /\ envFile # NoFile
    /\ Len(envFile) = 2
    /\ LinesFor(USER_WALLET_ADDRESS) = {1, 2}
    /\ ValueOf(envFile[1]) # ValueOf(envFile[2])
    /\ environ[USER_WALLET_ADDRESS] = ValueOf(envFile[1])
    /\ AIP_ENDPOINT \in DOMAIN environ
    /\ environ[AIP_ENDPOINT] = <<"http://e">>

(***************************************************************************)
(* C9, as stated: register_agent with a payload that is not JSON prints an *)
(* error object, exits 1 and constructs no client; with a JSON payload and *)
(* the wallet set, client.register_agent is called exactly once with       *)
(* "user:<wallet>" and the parsed payload, and what it returns is printed. *)
(***************************************************************************)
Registering == Done /\ EnoughArgs /\ argv[2] = "register_agent"

RegisteredOnce ==
    /\ Len(clients) = 1
    /\ calls = <<[method |-> "register_agent",
                  args |-> [user_id |-> <<"user:">> \o EnvAfterFile[USER_WALLET_ADDRESS],
                            agent_config |-> JsonLoads(Args[1])]]>>

C9_RegisterPrintsReturnValue ==
    Registering =>
        /\ ~IsJson(Args[1]) => (PrintedSomeError /\ NoNetwork)
        /\ (IsJson(Args[1]) /\ ~WalletAbsent) =>
              /\ RegisteredOnce
              /\ raised = <<>> => PrintedResult("value", frame.got[1])

(***************************************************************************)
(* C9, amended: the same, where what client.register_agent returns is      *)
(* printed when it is JSON-serializable; when it is not, the error object  *)
(* of the serialization error is printed and the status is 1.              *)
(***************************************************************************)
C9_RegisterPrintsSerializable ==
    Registering =>
        /\ ~IsJson(Args[1]) => (PrintedSomeError /\ NoNetwork)
        /\ (IsJson(Args[1]) /\ ~WalletAbsent) =>
              /\ RegisteredOnce
              /\ raised = <<>> =>
                    IF frame.got[1].serializable
                    THEN PrintedResult("value", frame.got[1])
                    ELSE PrintedError(NotSerializable)
              /\ raised # <<>> => PrintedError(raised[1])

C9_Witness ==
    /\ Registering
    /\ Args[1] = <<"7">>
    /\ RegisteredOnce
    /\ calls[1].args.agent_config.value = 7
    /\ raised = <<>>
    /\ PrintedResult("value", Returned(TRUE))

(***************************************************************************)
(* C10: the checks run in the order tool name given, tool name known,      *)
(* enough arguments, limit and offset are integers, wallet present,        *)
(* registration payload is JSON, client call, and the error printed is     *)
(* that of the first check that fails; at most one handler is invoked,     *)
(* only after the first three checks passed, and it is the one registered  *)
(* under the tool name; an unknown tool reaches neither the configuration  *)
(* nor the client.                                                         *)
(***************************************************************************)
C10_FirstFailingCheck ==
    /\ Len(handlers) <= 1
    /\ handlers # <<>> => (EnoughArgs /\ handlers[1] = argv[2])
    /\ ~KnownTool => (configs = 0 /\ NoNetwork)
    /\ Done =>
          IF ~HasTool THEN PrintedError(<<"Usage: ">> \o AllUsage)
          ELSE IF ~KnownTool
          THEN PrintedError(<<"Unknown tool: ", argv[2], ". Usage: ">> \o AllUsage)
          ELSE IF ~EnoughArgs
          THEN /\ PrintedError(<<"Usage: ", TOOLS[argv[2]].usage>>)
               /\ configs = 0
               /\ NoNetwork
          ELSE IF NonIntArg
          THEN PrintedError(IntError(FirstBadInt)) /\ configs = 0 /\ NoNetwork
          ELSE IF WalletAbsent THEN PrintedError(MissingEnv) /\ NoNetwork
          ELSE IF BadJson THEN PrintedError(InvalidJson) /\ NoNetwork
          ELSE /\ calls # <<>>
               /\ (raised # <<>> /\ stdout[1].tag = "error") => PrintedError(raised[1])

\* the offset is no integer, the wallet is missing too: the integer error wins
C10_Witness ==
    /\ Done
    /\ KnownTool
    /\ argv[2] = "list_runs"
    /\ handlers = <<"list_runs">>
    /\ BadIntArgs = {2}
    /\ WalletAbsent
    /\ PrintedError(IntError(<<"x">>))

====
